---- MODULE Spec2Model ----
(***************************************************************************)
(* State-machine model of the browser video-call front end:               *)
(*   UserVideoCallService  (src/src/services/userVideoCallService.ts,     *)
(*                          first class of the file, lines 4-528)         *)
(*   createAnswer with its wait for ICE gathering                          *)
(*                         (src/src/services/socketService.ts, 915-949)   *)
(*   getWebRTCConfig       (src/src/config/webrtcConfig.ts and the        *)
(*                          earlier revision in src/unnamed/part_000)     *)
(*   the call screen's state callback                                     *)
(*                         (src/src/components/user/UserVideoCall.tsx)    *)
(* Every asynchronous method is a process that advances from one await of *)
(* a browser operation to the next; what runs between two such awaits is  *)
(* one atomic action (the JavaScript event loop runs it to completion).   *)
(***************************************************************************)
EXTENDS Integers, Sequences, FiniteSets, TLC

\* ---------------------------------------------------------------- bounds
MaxSetups == 2      \* makeCall / handleIncomingCall invocations (Spec)
MaxStreams == 2     \* successful getUserMedia acquisitions
MaxEnds == 2        \* disconnectCall invocations
MaxTracks == 1      \* remote track events
MaxCand == 4        \* remote ICE candidates delivered (SpecIce)
MaxIceEvents == 4   \* ICE / connection state change events (SpecConn)
MaxLocalCands == 2  \* local ICE candidates generated (SpecUi)
MaxArrivals == 2    \* remote track events per revision of ontrack (SpecTrack)
MaxTimers == 2      \* setupVideoCall timers scheduled (SpecCtx)
MaxEmits == 3       \* messages the CallProvider emits (SpecCtx)
MaxCallers == 2     \* distinct callers ringing the CallProvider (SpecCtx)
MaxSockets == 3     \* sockets SocketService.connect creates (SpecSock)
MaxSubs == 2        \* direct SocketService.on calls (SpecSock)
MaxMounts == 2      \* calls the UserVideoCall component starts (SpecScreen)

\* ---------------------------------------------------------------- processes
Ctor == 0           \* the initializePeerConnection run the constructor starts
Sls == 0 - 1        \* a startLocalStream call made by the owner
Ans == 0 - 2        \* a handleAnswer call
Cra == 0 - 3        \* a createAnswer call
Neg == 0 - 4        \* a run of the onnegotiationneeded handler
SetupIds == 1..MaxSetups
ProcIds == Neg .. MaxSetups

VARIABLES
    pcs,                \* every RTCPeerConnection created so far, by identity
    peerConnection,     \* this.peerConnection: 0 (null) or an index of pcs
    streams,            \* every local MediaStream acquired so far
    localStream,        \* this.localStream: 0 (null) or an index of streams
    remoteStream,       \* this.remoteStream: null, or the set of its tracks
    remoteTracks,       \* remote tracks received so far -> stopped?
    onCallStateChange,  \* is the owner's state callback registered
    notes,              \* states delivered to the owner through the callback
    procs,              \* position and locals of every asynchronous call
    iceLog,             \* handleIceCandidate calls so far and their outcome
    ends,               \* number of disconnectCall invocations so far
    tornLast,           \* the latest public call on the service was disconnectCall
    iceEvents,          \* number of state change events delivered so far
    cfgIn,              \* environment and server reply of one ICE-server fetch
    cfgOut,             \* what getWebRTCConfig settled with, per revision
    onIceCandidate,     \* is the owner's candidate callback registered
    onRemoteStreamUpdate, \* is the owner's remote-stream callback registered
    streamUpdates,      \* calls of the remote-stream callback so far
    revStreams,         \* this.remoteStream as the later revisions of ontrack keep it
    localCands,         \* local ICE candidates the connections generated so far
    socket,             \* SocketService: connected flag, messages emitted
    ctx,                \* the state of the CallProvider component
    timers,             \* pending timers of setupVideoCall with what they captured
    callLog,            \* callers handed to handleIncomingCall; callers the socket
                        \* service was asked to answer (call-accepted or rejectCall)
    sockets,            \* every socket io() created for SocketService, by identity
    thisSocket,         \* SocketService's this.socket: 0 (null) or an index of sockets
    subs,               \* every SocketService.on call so far, by callback identity
    heard,              \* callbacks the latest socket message invoked
    screen              \* the UserVideoCall component and its current call

cfgVars == <<cfgIn, cfgOut>>
uiVars == <<onIceCandidate, onRemoteStreamUpdate, streamUpdates, revStreams,
            localCands, socket>>
sockVars == <<sockets, thisSocket, subs, heard, screen>>
ctxVars == <<ctx, timers, callLog, sockVars>>
vars == <<pcs, peerConnection, streams, localStream, remoteStream, remoteTracks,
          onCallStateChange, notes, procs, iceLog, ends, tornLast, iceEvents, cfgVars,
          uiVars, ctxVars>>

\* A fresh RTCPeerConnection together with the closure state that
\* initializePeerConnection attaches to it (its iceCandidateQueue).
\* local: the call whose description is the committed local description, and
\* lastOffer: the call whose createOffer settled last on it (0: none; the
\* constructor's run creates no offer). needed: negotiationneeded has fired.
FreshPc ==
    [closed |-> FALSE, sig |-> "stable", remote |-> FALSE, local |-> 0,
     senders |-> {}, queue |-> <<>>, enq |-> <<>>, applied |-> <<>>,
     ice |-> "new", conn |-> "new", restarts |-> 0, fails |-> 0,
     gathering |-> "new", lastOffer |-> 0, needed |-> FALSE]

NoProc ==
    [kind |-> "none", at |-> "idle", link |-> 0, on |-> 0, good |-> TRUE,
     result |-> "none", ops |-> {}, snap |-> 0, made |-> 0, media |-> FALSE,
     timedOut |-> FALSE]

Suspended(p) == procs[p].at \notin {"idle", "done"}

\* RTCPeerConnection.close()
ClosePc(ps, X) ==
    [ps EXCEPT ![X].closed = TRUE, ![X].sig = "closed",
               ![X].ice = "closed", ![X].conn = "closed"]

\* The synchronous head of initializePeerConnection, up to its await.
InitHead(ps, cur) == IF cur # 0 THEN ClosePc(ps, cur) ELSE ps

NullStream == [present |-> FALSE, tracks |-> {}]

Finish(pr, r) == [pr EXCEPT !.at = "done", !.result = r, !.on = 0]

\* The fetch getWebRTCConfig makes: which of the two environment settings are
\* present, how the request ends, the HTTP status class and the reply body.
NoFetch == [apiUrl |-> TRUE, endpoint |-> TRUE, net |-> "ok", status |-> "ok",
            body |-> "wellFormed"]
NoConfig == [kind |-> "none", usable |-> FALSE]
NotFetched == [cur |-> NoConfig, old |-> NoConfig]

\* SocketService after construction: no socket, not connected.
\* The remote stream of the third and the fourth revision of the service:
\* its tracks by kind, the tracks of the sender's stream the events carry,
\* the track events handled and the calls of the owner's callback.
Revisions == {"third", "fourth"}
NoRevStream == [tracks |-> <<>>, far |-> <<>>, arrivals |-> 0, updates |-> 0]

NoSocket == [connected |-> FALSE, sent |-> 0]

\* CallProvider after its first render.
NoCall == [isIncomingCall |-> FALSE, incomingCallData |-> 0,
           isCallActive |-> FALSE, isCallInitialized |-> FALSE]
Callers == 1..MaxCallers
NoLog == [offered |-> {}, answered |-> {}]

\* UserVideoCall before it is mounted: pending counts the runs of
\* initializeCall that have not returned yet, ended and told say whether the
\* current call has ended locally and whether socketService.emit was called
\* with userEndCall for it.
NoScreen == [mounted |-> FALSE, pending |-> 0, ended |-> FALSE, told |-> FALSE]

InitService ==
    /\ onIceCandidate = FALSE
    /\ onRemoteStreamUpdate = FALSE
    /\ streamUpdates = 0
    /\ revStreams = [r \in Revisions |-> NoRevStream]
    /\ localCands = 0
    /\ socket = NoSocket
    /\ ctx = NoCall
    /\ timers = <<>>
    /\ callLog = NoLog
    /\ sockets = <<>>
    /\ thisSocket = 0
    /\ subs = <<>>
    /\ heard = 0
    /\ screen = NoScreen
    /\ pcs = <<>>
    /\ peerConnection = 0
    /\ streams = <<>>
    /\ localStream = 0
    /\ remoteStream = NullStream
    /\ remoteTracks = <<>>
    /\ onCallStateChange = FALSE
    /\ notes = <<>>
    /\ procs = [p \in ProcIds |->
                  IF p = Ctor THEN [NoProc EXCEPT !.kind = "init", !.at = "cfg"]
                  ELSE NoProc]
    /\ iceLog = <<>>
    /\ ends = 0
    /\ tornLast = FALSE
    /\ iceEvents = 0

Init ==
    /\ InitService
    /\ cfgIn = NoFetch
    /\ cfgOut = NotFetched

\* ---------------------------------------------------------------- call setup
\* RTCPeerConnection.addTrack for the tracks of local stream ls: it throws on a
\* closed connection and for a track that already has a sender.
AddTrackThrows(ps, Y, ls) == ps[Y].closed \/ ls \in ps[Y].senders

\* RTCPeerConnection.addIceCandidate(c) on connection Y succeeds only on an
\* open connection that has a remote description, for a candidate it accepts.
AddIceOk(ps, Y, c) == ~ps[Y].closed /\ ps[Y].remote /\ c.kind = "good"

\* _makeCallInternal from the forEach(addTrack) to the await of createOffer.
MakeCallTail(pr, ps, cur, ls) ==
    IF cur = 0
    THEN [ps |-> ps, pr |-> Finish(pr, "TypeError")]
    ELSE IF AddTrackThrows(ps, cur, ls)
    THEN [ps |-> ps,
          pr |-> Finish([pr EXCEPT !.ops = @ \cup {cur}], "InvalidStateError")]
    ELSE [ps |-> [ps EXCEPT ![cur].senders = @ \cup {ls}],
          pr |-> [pr EXCEPT !.at = "offer", !.on = cur, !.link = cur,
                            !.ops = @ \cup {cur}]]

\* handleIncomingCall from the decoding of the offer to the await of the
\* (patched) setRemoteDescription.
IncomingTail(pr, ps, cur) ==
    IF ~pr.good
    THEN [ps |-> ps, pr |-> Finish(pr, "DecodeError")]
    ELSE IF cur = 0
    THEN [ps |-> ps, pr |-> Finish(pr, "TypeError")]
    ELSE IF ps[cur].closed
    THEN [ps |-> ps,
          pr |-> Finish([pr EXCEPT !.ops = @ \cup {cur}], "InvalidStateError")]
    ELSE [ps |-> ps,
          pr |-> [pr EXCEPT !.at = "srd", !.on = cur, !.link = cur,
                            !.ops = @ \cup {cur}]]

\* What follows the await of resetPeerConnection in _makeCallInternal and in
\* handleIncomingCall: acquire local media if absent, then go on.
AfterMedia(pr, ps, cur, ls) ==
    IF pr.kind = "makeCall" THEN MakeCallTail(pr, ps, cur, ls)
    ELSE IncomingTail(pr, ps, cur)

AfterReset(pr, ps, cur, ls) ==
    IF ls = 0
    THEN [ps |-> ps, pr |-> [pr EXCEPT !.at = "gum"]]
    ELSE AfterMedia(pr, ps, cur, ls)

\* resetPeerConnection up to its first await.
ResetHead(pr, ps, cur) ==
    IF cur # 0
    THEN [ps |-> IF ps[cur].closed THEN ps ELSE [ps EXCEPT ![cur].senders = {}],
          pr |-> [pr EXCEPT !.at = "rst"]]
    ELSE [ps |-> InitHead(ps, cur), pr |-> [pr EXCEPT !.at = "cfg"]]

\* What handleIncomingCall / handleAnswer do once the candidates are drained.
AfterDrain(pr, ps, cur, ls) ==
    IF pr.kind = "answer"
    THEN [ps |-> ps, pr |-> Finish(pr, "ok")]
    ELSE IF ls = 0
    THEN [ps |-> ps, pr |-> Finish(pr, "TypeError")]
    ELSE IF cur = 0
    THEN [ps |-> ps, pr |-> Finish(pr, "ok")]
    ELSE IF AddTrackThrows(ps, cur, ls)
    THEN [ps |-> ps,
          pr |-> Finish([pr EXCEPT !.ops = @ \cup {cur}], "InvalidStateError")]
    ELSE [ps |-> [ps EXCEPT ![cur].senders = @ \cup {ls}],
          pr |-> Finish([pr EXCEPT !.ops = @ \cup {cur}], "ok")]

\* processPendingCandidates without its try/catch: the first candidate that
\* addIceCandidate rejects ends the loop and fails the caller.
DrainLoopNoCatch(pr, ps, cur, ls) ==
    LET X == pr.link
        q == ps[X].queue
    IN  IF q = <<>>
        THEN AfterDrain(pr, ps, cur, ls)
        ELSE IF cur = 0
        THEN AfterDrain(pr, [ps EXCEPT ![X].queue = <<>>], cur, ls)
        ELSE LET c == Head(q)
                 ps1 == [ps EXCEPT ![X].queue = Tail(q)]
             IN  IF AddIceOk(ps1, cur, c)
                 THEN [ps |-> [ps1 EXCEPT ![cur].applied = Append(@, c.id)],
                       pr |-> [pr EXCEPT !.at = "drain",
                                         !.on = IF ps[cur].closed THEN 0 ELSE cur]]
                 ELSE [ps |-> ps1, pr |-> Finish(pr, "OperationError")]

\* One turn of the while loop of processPendingCandidates, run by the patched
\* setRemoteDescription of connection pr.link over that connection's queue.
\* The candidate is handed to this.peerConnection, whichever that is now; with
\* this.peerConnection null the loop never awaits and empties the queue.
DrainLoop(pr, ps, cur, ls) ==
    LET X == pr.link
        q == ps[X].queue
    IN  IF q = <<>>
        THEN AfterDrain(pr, ps, cur, ls)
        ELSE IF cur = 0
        THEN AfterDrain(pr, [ps EXCEPT ![X].queue = <<>>], cur, ls)
        ELSE LET c == Head(q)
                 ps1 == [ps EXCEPT ![X].queue = Tail(q)]
                 ps2 == IF AddIceOk(ps1, cur, c)
                        THEN [ps1 EXCEPT ![cur].applied = Append(@, c.id)]
                        ELSE ps1
             IN  [ps |-> ps2,
                  pr |-> [pr EXCEPT !.at = "drain",
                                    !.on = IF ps[cur].closed THEN 0 ELSE cur]]

\* Does the native setRemoteDescription accept the description in this
\* signaling state (an answer needs an outstanding local offer).
SrdValid(kind, sig) ==
    IF kind = "answer" THEN sig = "have-local-offer"
    ELSE sig \in {"stable", "have-remote-offer", "have-local-offer"}

\* The patched setRemoteDescription once the native one has settled.
SrdDone(pr, ps, cur, ls) ==
    LET X == pr.link
    IN  IF ~SrdValid(pr.kind, ps[X].sig)
        THEN [ps |-> ps, pr |-> Finish(pr, "InvalidStateError")]
        ELSE LET ps1 == [ps EXCEPT ![X].remote = TRUE,
                            ![X].sig = IF pr.kind = "answer" THEN "stable"
                                       ELSE "have-remote-offer"]
             IN  DrainLoop([pr EXCEPT !.snap = Len(iceLog)], ps1, cur, ls)

Step(p, r) ==
    /\ pcs' = r.ps
    /\ procs' = [procs EXCEPT ![p] = r.pr]

\* makeCall(recipientId) is invoked.
StartMakeCall(p) ==
    /\ procs[p].at = "idle"
    /\ Step(p, ResetHead([procs[p] EXCEPT !.kind = "makeCall"], pcs, peerConnection))
    /\ tornLast' = FALSE
    /\ UNCHANGED <<peerConnection, streams, localStream, remoteStream, remoteTracks,
                   onCallStateChange, notes, iceLog, ends, iceEvents, cfgVars, uiVars, ctxVars>>

\* The 30 s timer of makeCall fires while _makeCallInternal is still pending:
\* Promise.race settles with the timer's rejection and makeCall throws "Call
\* setup timeout". Nothing cancels _makeCallInternal, which goes on.
MakeCallTimeout(p) ==
    /\ procs[p].kind = "makeCall"
    /\ Suspended(p)
    /\ ~procs[p].timedOut
    /\ procs' = [procs EXCEPT ![p].timedOut = TRUE]
    /\ UNCHANGED <<pcs, peerConnection, streams, localStream, remoteStream,
                   remoteTracks, onCallStateChange, notes, iceLog, ends, tornLast,
                   iceEvents, cfgVars, uiVars, ctxVars>>

\* handleIncomingCall(offerBase64) is invoked; good: the payload decodes.
StartIncoming(p, good) ==
    /\ procs[p].at = "idle"
    /\ Step(p, ResetHead([procs[p] EXCEPT !.kind = "incoming", !.good = good],
                         pcs, peerConnection))
    /\ tornLast' = FALSE
    /\ UNCHANGED <<peerConnection, streams, localStream, remoteStream, remoteTracks,
                   onCallStateChange, notes, iceLog, ends, iceEvents, cfgVars, uiVars, ctxVars>>

\* resetPeerConnection resumes after the senders were detached: it closes
\* this.peerConnection (a TypeError on null is caught), clears the reference
\* and enters initializePeerConnection, which suspends on getWebRTCConfig.
ResetClose(p) ==
    /\ procs[p].at = "rst"
    /\ LET ps1 == IF peerConnection # 0 THEN ClosePc(pcs, peerConnection) ELSE pcs
       IN  Step(p, [ps |-> InitHead(ps1, 0), pr |-> [procs[p] EXCEPT !.at = "cfg"]])
    /\ peerConnection' = 0
    /\ UNCHANGED <<streams, localStream, remoteStream, remoteTracks,
                   onCallStateChange, notes, iceLog, ends, tornLast, iceEvents, cfgVars, uiVars, ctxVars>>

\* getWebRTCConfig settles: initializePeerConnection creates the connection,
\* installs its handlers and returns to its caller.
ConfigResolved(p) ==
    /\ procs[p].at = "cfg"
    /\ LET ps1 == Append(pcs, FreshPc)
           n == Len(ps1)
       IN  /\ peerConnection' = n
           /\ IF procs[p].kind = "init"
              THEN Step(p, [ps |-> ps1, pr |-> Finish(procs[p], "ok")])
              ELSE Step(p, AfterReset([procs[p] EXCEPT !.made = n], ps1, n, localStream))
    /\ UNCHANGED <<streams, localStream, remoteStream, remoteTracks,
                   onCallStateChange, notes, iceLog, ends, tornLast, iceEvents, cfgVars, uiVars, ctxVars>>

\* What getUserMedia({video, audio}) hands startLocalStream: one track of
\* each kind, which startLocalStream enables.
Kinds == {"audio", "video"}
NewStream == [stopped |-> FALSE, enabled |-> [k \in Kinds |-> TRUE]]

\* The owner calls startLocalStream() directly.
StartLocalStream ==
    /\ procs[Sls].at = "idle"
    /\ procs' = [procs EXCEPT ![Sls].kind = "startLocalStream", ![Sls].at = "gum"]
    /\ tornLast' = FALSE
    /\ UNCHANGED <<pcs, peerConnection, streams, localStream, remoteStream,
                   remoteTracks, onCallStateChange, notes, iceLog, ends, iceEvents, cfgVars, uiVars, ctxVars>>

\* getUserMedia settles inside startLocalStream: granted or denied.
GumResolved(p, granted) ==
    /\ procs[p].at = "gum"
    /\ IF granted
       THEN /\ Len(streams) < MaxStreams
            /\ streams' = Append(streams, NewStream)
            /\ localStream' = Len(streams) + 1
            /\ IF procs[p].kind = "startLocalStream"
               THEN Step(p, [ps |-> pcs, pr |-> Finish(procs[p], "ok")])
               ELSE Step(p, AfterMedia([procs[p] EXCEPT !.media = TRUE], pcs,
                                       peerConnection, Len(streams) + 1))
       ELSE /\ Step(p, [ps |-> pcs, pr |-> Finish(procs[p], "MediaError")])
            /\ UNCHANGED <<streams, localStream>>
    /\ UNCHANGED <<peerConnection, remoteStream, remoteTracks,
                   onCallStateChange, notes, iceLog, ends, tornLast, iceEvents, cfgVars, uiVars, ctxVars>>

\* createOffer settles: _makeCallInternal hands the offer to setLocalDescription
\* of this.peerConnection, which accepts only the offer it created itself.
OfferResolved(p) ==
    /\ procs[p].at = "offer"
    /\ ~pcs[procs[p].on].closed
    /\ LET cur == peerConnection
           pr == procs[p]
           ps1 == [pcs EXCEPT ![pr.on].lastOffer = p]
       IN  IF cur = 0
           THEN Step(p, [ps |-> ps1, pr |-> Finish(pr, "TypeError")])
           ELSE IF pcs[cur].closed
           THEN Step(p, [ps |-> ps1, pr |-> Finish([pr EXCEPT !.ops = @ \cup {cur}],
                                                   "InvalidStateError")])
           ELSE IF cur # pr.link
           THEN Step(p, [ps |-> ps1, pr |-> Finish([pr EXCEPT !.ops = @ \cup {cur}],
                                                   "InvalidModificationError")])
           ELSE Step(p, [ps |-> ps1, pr |-> [pr EXCEPT !.at = "sld", !.on = cur]])
    /\ UNCHANGED <<peerConnection, streams, localStream, remoteStream, remoteTracks,
                   onCallStateChange, notes, iceLog, ends, tornLast, iceEvents, cfgVars, uiVars, ctxVars>>

\* setLocalDescription settles: makeCall returns the encoded offer.
SldResolved(p) ==
    /\ procs[p].at = "sld"
    /\ ~pcs[procs[p].on].closed
    /\ LET X == procs[p].on
       IN  IF pcs[X].lastOffer # p
           THEN Step(p, [ps |-> pcs,
                         pr |-> Finish(procs[p], "InvalidModificationError")])
           ELSE IF pcs[X].sig \in {"stable", "have-local-offer"}
           THEN Step(p, [ps |-> [pcs EXCEPT ![X].sig = "have-local-offer",
                                            ![X].local = p],
                         pr |-> Finish(procs[p], "offer")])
           ELSE Step(p, [ps |-> pcs, pr |-> Finish(procs[p], "InvalidStateError")])
    /\ UNCHANGED <<peerConnection, streams, localStream, remoteStream, remoteTracks,
                   onCallStateChange, notes, iceLog, ends, tornLast, iceEvents, cfgVars, uiVars, ctxVars>>

\* The browser fires negotiationneeded on connection X: X is open, none of its
\* chained operations is in progress, its signaling state is stable, it has
\* tracks that no description covers yet, and the event has not fired for them.
\* The handler reads this.peerConnection and starts createOffer on it; it runs
\* in a try/catch, so whatever its operations raise ends the handler only.
NegotiationIsNeeded(X) == pcs[X].senders # {} /\ pcs[X].local = 0 /\ ~pcs[X].remote

ChainBusy(X) == \E q \in ProcIds : Suspended(q) /\ procs[q].on = X

OnNegotiationNeeded(X) ==
    /\ procs[Neg].at = "idle"
    /\ ~pcs[X].closed
    /\ ~ChainBusy(X)
    /\ pcs[X].sig = "stable"
    /\ NegotiationIsNeeded(X)
    /\ ~pcs[X].needed
    /\ LET cur == peerConnection
           ps1 == [pcs EXCEPT ![X].needed = TRUE]
           pr == [procs[Neg] EXCEPT !.kind = "negotiation"]
       IN  IF cur = 0
           THEN Step(Neg, [ps |-> ps1, pr |-> Finish(pr, "ok")])
           ELSE IF pcs[cur].closed
           THEN Step(Neg, [ps |-> ps1, pr |-> Finish([pr EXCEPT !.ops = @ \cup {cur}],
                                                     "InvalidStateError")])
           ELSE Step(Neg, [ps |-> ps1,
                           pr |-> [pr EXCEPT !.at = "offer", !.on = cur, !.link = cur,
                                             !.ops = @ \cup {cur}]])
    /\ UNCHANGED <<peerConnection, streams, localStream, remoteStream, remoteTracks,
                   onCallStateChange, notes, iceLog, ends, tornLast, iceEvents,
                   cfgVars, uiVars, ctxVars>>

\* The native setRemoteDescription settles; the patch drains the queue.
SrdResolved(p) ==
    /\ procs[p].at = "srd"
    /\ ~pcs[procs[p].on].closed
    /\ Step(p, SrdDone(procs[p], pcs, peerConnection, localStream))
    /\ UNCHANGED <<peerConnection, streams, localStream, remoteStream, remoteTracks,
                   onCallStateChange, notes, iceLog, ends, tornLast, iceEvents, cfgVars, uiVars, ctxVars>>

\* An addIceCandidate awaited by processPendingCandidates settles.
DrainStep(p) ==
    /\ procs[p].at = "drain"
    /\ procs[p].on = 0 \/ ~pcs[procs[p].on].closed
    /\ Step(p, DrainLoop(procs[p], pcs, peerConnection, localStream))
    /\ UNCHANGED <<peerConnection, streams, localStream, remoteStream, remoteTracks,
                   onCallStateChange, notes, iceLog, ends, tornLast, iceEvents, cfgVars, uiVars, ctxVars>>

\* ---------------------------------------------------------------- teardown
\* The tracks disconnectCall stops: those of this.remoteStream.
StopRemote(rt, rs) ==
    [i \in DOMAIN rt |-> IF rs.present /\ i \in rs.tracks
                         THEN [rt[i] EXCEPT !.stopped = TRUE] ELSE rt[i]]

Notify(ns, cb, state) == IF cb THEN Append(ns, state) ELSE ns

DisconnectCallEffects ==
    /\ ends < MaxEnds
    /\ ends' = ends + 1
    /\ streams' = IF localStream # 0
                  THEN [streams EXCEPT ![localStream].stopped = TRUE] ELSE streams
    /\ remoteTracks' = StopRemote(remoteTracks, remoteStream)
    /\ pcs' = IF peerConnection # 0 THEN ClosePc(pcs, peerConnection) ELSE pcs
    /\ localStream' = 0
    /\ remoteStream' = NullStream
    /\ peerConnection' = 0
    /\ notes' = Notify(notes, onCallStateChange, "ended")
    /\ tornLast' = TRUE

disconnectCall ==
    /\ DisconnectCallEffects
    /\ UNCHANGED <<onCallStateChange, procs, iceLog, iceEvents, cfgVars, uiVars, ctxVars>>

setOnCallStateChange ==
    /\ ~onCallStateChange
    /\ onCallStateChange' = TRUE
    /\ UNCHANGED <<pcs, peerConnection, streams, localStream, remoteStream,
                   remoteTracks, notes, procs, iceLog, ends, tornLast, iceEvents, cfgVars, uiVars, ctxVars>>

\* The ontrack handler of connection X, for a remote track of the given kind:
\* it creates this.remoteStream if absent, replaces (and stops) the track of the
\* same kind, adds the new one and calls the owner's callback if registered.
OnTrackHandler(X, kind) ==
    /\ ~pcs[X].closed
    /\ pcs[X].remote
    /\ LET n == Len(remoteTracks) + 1
           rs == IF remoteStream.present THEN remoteStream.tracks ELSE {}
           old == {i \in rs : remoteTracks[i].kind = kind}
           rt1 == [i \in DOMAIN remoteTracks |->
                     IF i \in old THEN [remoteTracks[i] EXCEPT !.stopped = TRUE]
                     ELSE remoteTracks[i]]
       IN  /\ remoteTracks' = Append(rt1, [kind |-> kind, from |-> X, stopped |-> FALSE])
           /\ remoteStream' = [present |-> TRUE, tracks |-> (rs \ old) \cup {n}]
    /\ streamUpdates' = IF onRemoteStreamUpdate THEN streamUpdates + 1 ELSE streamUpdates
    /\ UNCHANGED <<pcs, peerConnection, streams, localStream, onCallStateChange,
                   notes, procs, iceLog, ends, tornLast, iceEvents, cfgVars,
                   onIceCandidate, onRemoteStreamUpdate, revStreams, localCands,
                   socket, ctxVars>>

OnTrack(X, kind) ==
    /\ Len(remoteTracks) < MaxTracks
    /\ OnTrackHandler(X, kind)

\* The same handler over a longer sequence of track events.
OnTrackArrival(X, kind) ==
    /\ Len(remoteTracks) < MaxArrivals
    /\ OnTrackHandler(X, kind)

\* The third revision: the track is added once per stream the event carries,
\* unless the stream already holds a track with its id; a track of the same
\* kind is not replaced. The callback is called in any case.
OnTrackThird(kind, hasStream) ==
    /\ revStreams["third"].arrivals < MaxArrivals
    /\ revStreams' = [revStreams EXCEPT
            !["third"].tracks = IF hasStream THEN Append(@, kind) ELSE @,
            !["third"].arrivals = @ + 1,
            !["third"].updates = IF onRemoteStreamUpdate THEN @ + 1 ELSE @]
    /\ UNCHANGED <<pcs, peerConnection, streams, localStream, remoteStream,
                   remoteTracks, onCallStateChange, notes, procs, iceLog, ends,
                   tornLast, iceEvents, cfgVars, onIceCandidate, onRemoteStreamUpdate,
                   streamUpdates, localCands, socket, ctxVars>>

\* The fourth revision: this.remoteStream becomes the sender's stream the
\* event carries, and the callback is called, only if the event carries one.
OnTrackFourth(kind, hasStream) ==
    /\ revStreams["fourth"].arrivals < MaxArrivals
    /\ LET far == Append(revStreams["fourth"].far, kind)
       IN  revStreams' = [revStreams EXCEPT
               !["fourth"].far = IF hasStream THEN far ELSE @,
               !["fourth"].tracks = IF hasStream THEN far ELSE @,
               !["fourth"].arrivals = @ + 1,
               !["fourth"].updates =
                   IF hasStream /\ onRemoteStreamUpdate THEN @ + 1 ELSE @]
    /\ UNCHANGED <<pcs, peerConnection, streams, localStream, remoteStream,
                   remoteTracks, onCallStateChange, notes, procs, iceLog, ends,
                   tornLast, iceEvents, cfgVars, onIceCandidate, onRemoteStreamUpdate,
                   streamUpdates, localCands, socket, ctxVars>>

setOnRemoteStreamUpdate ==
    /\ ~onRemoteStreamUpdate
    /\ onRemoteStreamUpdate' = TRUE
    /\ UNCHANGED <<pcs, peerConnection, streams, localStream, remoteStream,
                   remoteTracks, onCallStateChange, notes, procs, iceLog, ends,
                   tornLast, iceEvents, cfgVars, onIceCandidate, streamUpdates,
                   revStreams, localCands, socket, ctxVars>>

\* muteAudio(mute) / hideVideo(hide): with a local stream, every track of the
\* kind gets enabled = !flag; without one, nothing happens.
SetEnabled(ss, ls, kind, on) ==
    IF ls # 0 THEN [ss EXCEPT ![ls].enabled[kind] = on] ELSE ss

muteAudioAllTracks(mute) ==
    /\ streams' = SetEnabled(SetEnabled(streams, localStream, "audio", ~mute),
                             localStream, "video", ~mute)
    /\ UNCHANGED <<pcs, peerConnection, localStream, remoteStream, remoteTracks,
                   onCallStateChange, notes, procs, iceLog, ends, tornLast,
                   iceEvents, cfgVars, uiVars, ctxVars>>

muteAudio(mute) ==
    /\ streams' = SetEnabled(streams, localStream, "audio", ~mute)
    /\ UNCHANGED <<pcs, peerConnection, localStream, remoteStream, remoteTracks,
                   onCallStateChange, notes, procs, iceLog, ends, tornLast,
                   iceEvents, cfgVars, uiVars, ctxVars>>

hideVideo(hide) ==
    /\ streams' = SetEnabled(streams, localStream, "video", ~hide)
    /\ UNCHANGED <<pcs, peerConnection, localStream, remoteStream, remoteTracks,
                   onCallStateChange, notes, procs, iceLog, ends, tornLast,
                   iceEvents, cfgVars, uiVars, ctxVars>>

\* ---------------------------------------------------------------- signaling
\* handleAnswer(answerBase64) is invoked; good: the payload decodes.
StartAnswer(good) ==
    /\ procs[Ans].at = "idle"
    /\ LET cur == peerConnection
           pr == [procs[Ans] EXCEPT !.kind = "answer", !.good = good]
       IN  procs' = [procs EXCEPT ![Ans] =
                IF cur = 0 THEN Finish(pr, "NotInitialized")
                ELSE IF ~good THEN Finish(pr, "DecodeError")
                ELSE IF pcs[cur].closed THEN Finish(pr, "InvalidStateError")
                ELSE [pr EXCEPT !.at = "srd", !.on = cur, !.link = cur,
                                !.ops = @ \cup {cur}]]
    /\ tornLast' = FALSE
    /\ UNCHANGED <<pcs, peerConnection, streams, localStream, remoteStream,
                   remoteTracks, onCallStateChange, notes, iceLog, ends, iceEvents, cfgVars, uiVars, ctxVars>>

\* handleAnswer is invoked once more after an earlier invocation has applied the
\* answer (the peer resent it): the same code runs again from its first line.
ResendAnswer ==
    /\ procs[Ans].at = "done"
    /\ procs[Ans].result = "ok"
    /\ LET cur == peerConnection
           pr == [NoProc EXCEPT !.kind = "answer"]
       IN  procs' = [procs EXCEPT ![Ans] =
                IF cur = 0 THEN Finish(pr, "NotInitialized")
                ELSE IF pcs[cur].closed THEN Finish(pr, "InvalidStateError")
                ELSE [pr EXCEPT !.at = "srd", !.on = cur, !.link = cur,
                                !.ops = @ \cup {cur}]]
    /\ tornLast' = FALSE
    /\ UNCHANGED <<pcs, peerConnection, streams, localStream, remoteStream,
                   remoteTracks, onCallStateChange, notes, iceLog, ends, iceEvents, cfgVars, uiVars, ctxVars>>

\* createAnswer() in the revision that waits for ICE gathering
\* (src/src/services/socketService.ts, lines 915-949) is invoked.
StartCreateAnswer ==
    /\ procs[Cra].at = "idle"
    /\ LET cur == peerConnection
           pr == [procs[Cra] EXCEPT !.kind = "createAnswer"]
       IN  procs' = [procs EXCEPT ![Cra] =
                IF cur = 0 THEN Finish(pr, "NotInitialized")
                ELSE IF pcs[cur].closed THEN Finish(pr, "InvalidStateError")
                ELSE [pr EXCEPT !.at = "answer", !.on = cur, !.link = cur,
                                !.ops = @ \cup {cur}]]
    /\ tornLast' = FALSE
    /\ UNCHANGED <<pcs, peerConnection, streams, localStream, remoteStream,
                   remoteTracks, onCallStateChange, notes, iceLog, ends, iceEvents, cfgVars, uiVars, ctxVars>>

\* The native createAnswer settles (it needs a remote offer); the answer goes to
\* setLocalDescription of this.peerConnection, which takes only its own answer.
AnswerResolved ==
    /\ procs[Cra].at = "answer"
    /\ ~pcs[procs[Cra].on].closed
    /\ LET cur == peerConnection
           pr == procs[Cra]
       IN  procs' = [procs EXCEPT ![Cra] =
                IF pcs[pr.on].sig # "have-remote-offer" THEN Finish(pr, "InvalidStateError")
                ELSE IF cur = 0 THEN Finish(pr, "TypeError")
                ELSE IF pcs[cur].closed
                THEN Finish([pr EXCEPT !.ops = @ \cup {cur}], "InvalidStateError")
                ELSE IF cur # pr.link
                THEN Finish([pr EXCEPT !.ops = @ \cup {cur}], "InvalidModificationError")
                ELSE [pr EXCEPT !.at = "asld", !.on = cur]]
    /\ UNCHANGED <<pcs, peerConnection, streams, localStream, remoteStream,
                   remoteTracks, onCallStateChange, notes, iceLog, ends, tornLast,
                   iceEvents, cfgVars, uiVars, ctxVars>>

\* The executor of the promise createAnswer waits on: it reads the gathering
\* state of this.peerConnection (a TypeError when that is null) and resolves at
\* once when it is "complete"; otherwise it installs onicegatheringstatechange on
\* that connection and createAnswer stays suspended. No timer is started.
GatherWait(pr, ps, cur) ==
    IF cur = 0 THEN Finish(pr, "TypeError")
    ELSE IF ps[cur].gathering = "complete" THEN Finish(pr, "answer")
    ELSE [pr EXCEPT !.at = "gather", !.on = cur]

\* setLocalDescription(answer) settles: the connection is stable, starts to
\* gather, and createAnswer enters its wait.
AnswerSldResolved ==
    /\ procs[Cra].at = "asld"
    /\ ~pcs[procs[Cra].on].closed
    /\ LET X == procs[Cra].on
           pr == procs[Cra]
       IN  IF pcs[X].sig # "have-remote-offer"
           THEN Step(Cra, [ps |-> pcs, pr |-> Finish(pr, "InvalidStateError")])
           ELSE LET ps1 == [pcs EXCEPT ![X].sig = "stable", ![X].local = Cra]
                IN  Step(Cra, [ps |-> ps1, pr |-> GatherWait(pr, ps1, peerConnection)])
    /\ UNCHANGED <<peerConnection, streams, localStream, remoteStream, remoteTracks,
                   onCallStateChange, notes, iceLog, ends, tornLast, iceEvents, cfgVars, uiVars, ctxVars>>

\* The gathering states a connection with a local description moves through.
GatherSucc(s) ==
    CASE s = "new" -> {"gathering"}
      [] s = "gathering" -> {"complete"}
      [] OTHER -> {}

\* The handler createAnswer installed on connection X: it resolves the wait when
\* the gathering state of this.peerConnection is "complete"; with
\* this.peerConnection null it throws and the wait goes on.
GatherHandler(pr, ps, cur, X) ==
    IF pr.at = "gather" /\ pr.on = X /\ cur # 0 /\ ps[cur].gathering = "complete"
    THEN Finish(pr, "answer")
    ELSE pr

\* The browser moves the gathering state of connection X on.
GatheringChange(X) ==
    /\ ~pcs[X].closed
    /\ pcs[X].local # 0
    /\ \E s \in GatherSucc(pcs[X].gathering) :
          LET ps1 == [pcs EXCEPT ![X].gathering = s]
          IN  Step(Cra, [ps |-> ps1,
                         pr |-> GatherHandler(procs[Cra], ps1, peerConnection, X)])
    /\ UNCHANGED <<peerConnection, streams, localStream, remoteStream, remoteTracks,
                   onCallStateChange, notes, iceLog, ends, tornLast, iceEvents, cfgVars, uiVars, ctxVars>>

\* The outcome of the handleIceCandidate installed by initializePeerConnection
\* for the candidate c, on the connections ps with this.peerConnection = cur.
\* The queue it pushes to is the one of the latest initializePeerConnection run.
IceOutcome(ps, cur, c) ==
    IF cur = 0 THEN "threw"
    ELSE IF c.kind = "malformed" THEN "threw"
    ELSE IF ps[cur].remote
    THEN IF AddIceOk(ps, cur, c) THEN "applied" ELSE "threw"
    ELSE "queued"

\* handleIceCandidate(candidateBase64) is invoked. kind: "good", "malformed"
\* (the payload does not decode) or "unappliable" (addIceCandidate rejects it).
handleIceCandidate(kind) ==
    /\ Len(iceLog) < MaxCand
    /\ LET c == [id |-> Len(iceLog) + 1, kind |-> kind]
           cur == peerConnection
           res == IceOutcome(pcs, cur, c)
           h == Len(pcs)
       IN  /\ pcs' = IF res = "applied"
                     THEN [pcs EXCEPT ![cur].applied = Append(@, c.id)]
                     ELSE IF res = "queued"
                     THEN [pcs EXCEPT ![h].queue = Append(@, c),
                                      ![h].enq = Append(@, c)]
                     ELSE pcs
           /\ iceLog' = Append(iceLog, [id |-> c.id, kind |-> kind,
                                        result |-> res, pc |-> cur])
    /\ tornLast' = FALSE
    /\ UNCHANGED <<peerConnection, streams, localStream, remoteStream, remoteTracks,
                   onCallStateChange, notes, procs, ends, iceEvents, cfgVars, uiVars, ctxVars>>

\* ---------------------------------------------------------------- connection state
\* The states the browser may move a connection's ICE state to.
IceSucc(s) ==
    CASE s = "new" -> {"checking"}
      [] s = "checking" -> {"connected", "failed", "disconnected"}
      [] s = "connected" -> {"disconnected"}
      [] s = "disconnected" -> {"connected", "failed", "checking"}
      [] s = "failed" -> {"checking"}
      [] OTHER -> {}

ConnSucc(s) ==
    CASE s = "new" -> {"connecting"}
      [] s = "connecting" -> {"connected", "failed", "disconnected"}
      [] s = "connected" -> {"disconnected"}
      [] s = "disconnected" -> {"connected", "failed", "connecting"}
      [] s = "failed" -> {"connecting"}
      [] OTHER -> {}

Negotiated(X) == ~pcs[X].closed /\ pcs[X].remote /\ pcs[X].local # 0

\* The ICE state of connection X changes to s and its oniceconnectionstatechange
\* handler runs; the handler reads and restarts this.peerConnection.
IceHandler(ps, cur, cb, ns) ==
    LET state == IF cur = 0 THEN "undefined" ELSE ps[cur].ice
    IN  [ps |-> IF state = "failed" /\ ~ps[cur].closed
                THEN [ps EXCEPT ![cur].restarts = @ + 1] ELSE ps,
         ns |-> IF state # "undefined" THEN Notify(ns, cb, state) ELSE ns]

IceStateChange(X, s) ==
    /\ iceEvents < MaxIceEvents
    /\ Negotiated(X)
    /\ s \in IceSucc(pcs[X].ice)
    /\ LET ps1 == [pcs EXCEPT ![X].ice = s,
                              ![X].fails = IF s = "failed" THEN @ + 1 ELSE @]
           r == IceHandler(ps1, peerConnection, onCallStateChange, notes)
       IN  /\ pcs' = r.ps
           /\ notes' = r.ns
    /\ iceEvents' = iceEvents + 1
    /\ UNCHANGED <<peerConnection, streams, localStream, remoteStream, remoteTracks,
                   onCallStateChange, procs, iceLog, ends, tornLast, cfgVars, uiVars, ctxVars>>

\* The connection state of X changes to s; the onconnectionstatechange handler
\* that is installed last only logs.
ConnHandler(ps, cur) == ps

ConnectionStateChange(X, s) ==
    /\ iceEvents < MaxIceEvents
    /\ Negotiated(X)
    /\ s \in ConnSucc(pcs[X].conn)
    /\ pcs' = ConnHandler([pcs EXCEPT ![X].conn = s,
                                      ![X].fails = IF s = "failed" THEN @ + 1 ELSE @],
                          peerConnection)
    /\ iceEvents' = iceEvents + 1
    /\ UNCHANGED <<peerConnection, streams, localStream, remoteStream, remoteTracks,
                   onCallStateChange, notes, procs, iceLog, ends, tornLast, cfgVars, uiVars, ctxVars>>

\* ---------------------------------------------------------------- call screen and socket
setOnIceCandidate ==
    /\ ~onIceCandidate
    /\ onIceCandidate' = TRUE
    /\ UNCHANGED <<pcs, peerConnection, streams, localStream, remoteStream,
                   remoteTracks, onCallStateChange, notes, procs, iceLog, ends, tornLast,
                   iceEvents, cfgVars, onRemoteStreamUpdate, streamUpdates, revStreams, localCands,
                   socket, ctxVars>>

\* The socket's "connect" and "disconnect" / "connect_error" events.
SocketEvent(up) ==
    /\ socket.connected # up
    /\ socket' = [socket EXCEPT !.connected = up]
    /\ UNCHANGED <<pcs, peerConnection, streams, localStream, remoteStream,
                   remoteTracks, onCallStateChange, notes, procs, iceLog, ends, tornLast,
                   iceEvents, cfgVars, onIceCandidate, onRemoteStreamUpdate,
                   streamUpdates, revStreams, localCands, ctxVars>>

\* SocketService.emit: the message goes out only on a connected socket.
emit(sock) == IF sock.connected THEN [sock EXCEPT !.sent = @ + 1] ELSE sock

\* Connection X generates a local candidate and its onicecandidate handler runs:
\* with a callback registered it hands the candidate to the call screen's
\* callback, which emits it on the socket.
OnIceCandidate(X) ==
    /\ localCands < MaxLocalCands
    /\ ~pcs[X].closed
    /\ pcs[X].local # 0
    /\ localCands' = localCands + 1
    /\ socket' = IF onIceCandidate THEN emit(socket) ELSE socket
    /\ UNCHANGED <<pcs, peerConnection, streams, localStream, remoteStream,
                   remoteTracks, onCallStateChange, notes, procs, iceLog, ends, tornLast,
                   iceEvents, cfgVars, onIceCandidate, onRemoteStreamUpdate,
                   streamUpdates, revStreams, ctxVars>>

\* initializeCall has sent its offer and registered the socket listeners.
ListenersRegistered ==
    \E p \in SetupIds : procs[p].kind = "makeCall" /\ procs[p].result = "offer"

\* The userCallAnswer listener runs: it awaits handleAnswer and has no catch.
OnUserCallAnswer ==
    /\ ListenersRegistered
    /\ socket.connected
    /\ StartAnswer(TRUE) \/ ResendAnswer

\* The promise of the userCallAnswer listener was rejected with nobody to catch it.
AnswerListenerRejected == procs[Ans].at = "done" /\ procs[Ans].result # "ok"

\* ---------------------------------------------------------------- ICE-server configuration
\* The cases of one fetch. body: what the reply holds where the code reads the
\* server list: not JSON at all, no list, something that is not a list, a list
\* with an entry that has no urls, or a complete list.
FetchInputs ==
    [apiUrl : BOOLEAN, endpoint : BOOLEAN,
     net : {"ok", "networkError", "timeout"},
     status : {"ok", "clientError", "serverError"},
     body : {"notJson", "noServers", "serversNotList", "serverNoUrls", "wellFormed"}]

\* The hardcoded STUN-only configuration of the catch clause.
Fallback == [kind |-> "fallback", usable |-> TRUE]
\* A configuration built from the reply; usable: RTCPeerConnection accepts it.
Servers(usable) == [kind |-> "servers", usable |-> usable]
Rejected == [kind |-> "rejected", usable |-> FALSE]
Pending == [kind |-> "pending", usable |-> FALSE]

\* getTwilioConfig of src/config/webrtcConfig.ts. A missing base URL is replaced
\* by a placeholder host; the request is aborted after 10 s; everything that
\* throws inside the try ends in the catch clause, which returns the fallback.
getTwilioConfig(in) ==
    IF in.net # "ok" THEN Fallback
    ELSE IF in.status # "ok" THEN Fallback
    ELSE IF in.body \in {"notJson", "noServers", "serversNotList"} THEN Fallback
    ELSE Servers(in.body = "wellFormed")

\* getTwilioConfig of the earlier revision (src/unnamed/part_000): it throws when
\* either setting is missing, sets no time limit on the request, treats a
\* missing list as empty, and its catch clause rethrows.
getTwilioConfig0(in) ==
    IF ~in.apiUrl \/ ~in.endpoint THEN Rejected
    ELSE IF in.net = "networkError" THEN Rejected
    ELSE IF in.net = "timeout" THEN Pending
    ELSE IF in.status # "ok" THEN Rejected
    ELSE IF in.body \in {"notJson", "serversNotList"} THEN Rejected
    ELSE Servers(in.body # "serverNoUrls")

getWebRTCConfig ==
    /\ cfgOut.cur = NoConfig
    /\ cfgOut' = [cfgOut EXCEPT !.cur = getTwilioConfig(cfgIn)]
    /\ UNCHANGED <<pcs, peerConnection, streams, localStream, remoteStream,
                   remoteTracks, onCallStateChange, notes, procs, iceLog, ends,
                   tornLast, iceEvents, cfgIn, uiVars, ctxVars>>

getWebRTCConfig0 ==
    /\ cfgOut.old = NoConfig
    /\ cfgOut' = [cfgOut EXCEPT !.old = getTwilioConfig0(cfgIn)]
    /\ UNCHANGED <<pcs, peerConnection, streams, localStream, remoteStream,
                   remoteTracks, onCallStateChange, notes, procs, iceLog, ends,
                   tornLast, iceEvents, cfgIn, uiVars, ctxVars>>

\* The owner's state callback (the call screen): for which delivered states it
\* shows "Call connection failed" and ends the call.
OwnerShowsError(state) == state \in {"failed", "disconnected"}

\* ---------------------------------------------------------------- CallProvider
\* Each callback reads the state of the render that created it; the callbacks
\* the consumers call are those of the latest render. The timer callback of
\* setupVideoCall is created inside setupVideoCall and keeps that render's
\* isCallActive.
CtxFrame ==
    UNCHANGED <<pcs, peerConnection, streams, localStream, remoteStream,
                remoteTracks, onCallStateChange, notes, procs, iceLog, ends,
                tornLast, iceEvents, cfgVars, onIceCandidate, onRemoteStreamUpdate,
                streamUpdates, revStreams, localCands, sockVars>>

handleIncomingCallUnguarded(callerId) ==
    /\ socket.sent < MaxEmits
    /\ ctx' = [ctx EXCEPT !.isIncomingCall = TRUE, !.incomingCallData = callerId]
    /\ callLog' = [callLog EXCEPT !.offered = @ \cup {callerId}]
    /\ UNCHANGED socket
    /\ UNCHANGED timers
    /\ CtxFrame

handleIncomingCall(callerId) ==
    /\ socket.sent < MaxEmits
    /\ IF ~ctx.isCallActive /\ ~ctx.isCallInitialized
       THEN /\ ctx' = [ctx EXCEPT !.isIncomingCall = TRUE,
                                  !.incomingCallData = callerId]
            /\ callLog' = [callLog EXCEPT !.offered = @ \cup {callerId}]
            /\ UNCHANGED socket
       ELSE /\ socket' = emit(socket)
            /\ callLog' = [callLog EXCEPT !.offered = @ \cup {callerId},
                                          !.answered = @ \cup {callerId}]
            /\ UNCHANGED ctx
    /\ UNCHANGED timers
    /\ CtxFrame

acceptCall ==
    /\ socket.sent < MaxEmits
    /\ ctx.incomingCallData # 0
    /\ socket' = emit(socket)
    /\ callLog' = [callLog EXCEPT !.answered = @ \cup {ctx.incomingCallData}]
    /\ ctx' = [ctx EXCEPT !.isIncomingCall = FALSE, !.isCallActive = TRUE,
                          !.isCallInitialized = TRUE]
    /\ UNCHANGED timers
    /\ CtxFrame

rejectCall ==
    /\ socket.sent < MaxEmits
    /\ ctx.incomingCallData # 0
    /\ socket' = emit(socket)
    /\ callLog' = [callLog EXCEPT !.answered = @ \cup {ctx.incomingCallData}]
    /\ ctx' = [ctx EXCEPT !.isIncomingCall = FALSE, !.incomingCallData = 0]
    /\ UNCHANGED timers
    /\ CtxFrame

setupVideoCall ==
    /\ Len(timers) < MaxTimers
    /\ ~ctx.isCallInitialized
    /\ ctx' = [ctx EXCEPT !.isCallActive = TRUE, !.isCallInitialized = TRUE,
                          !.incomingCallData = 0]
    /\ timers' = Append(timers, [isCallActive |-> ctx.isCallActive])
    /\ UNCHANGED <<socket, callLog>>
    /\ CtxFrame

endCall ==
    /\ ctx' = NoCall
    /\ UNCHANGED <<timers, socket, callLog>>
    /\ CtxFrame

CallTimerInitializedOnly(captured, c) ==
    IF ~captured.isCallActive
    THEN [c EXCEPT !.isCallInitialized = FALSE, !.incomingCallData = 0]
    ELSE c

\* The oldest pending 30 s timer of setupVideoCall fires.
CallTimer(captured, c) ==
    IF ~captured.isCallActive
    THEN [c EXCEPT !.isCallInitialized = FALSE, !.isCallActive = FALSE,
                   !.incomingCallData = 0]
    ELSE c

TimerFires ==
    /\ timers # <<>>
    /\ ctx' = CallTimer(Head(timers), ctx)
    /\ timers' = Tail(timers)
    /\ UNCHANGED <<socket, callLog>>
    /\ CtxFrame

\* ---------------------------------------------------------------- SocketService
\* A socket as io() returns it: not yet connected, with no listener of the
\* application's events.
NewSocket == [state |-> "opening", listeners |-> {}]
SocketEvents == {"userCallAnswer", "iceCandidate"}
Live(s) == s.state # "closed"
SocketIds == 1..Len(sockets)

SockFrame ==
    UNCHANGED <<pcs, peerConnection, streams, localStream, remoteStream,
                remoteTracks, onCallStateChange, notes, procs, iceLog, ends,
                tornLast, iceEvents, cfgVars, onIceCandidate, onRemoteStreamUpdate,
                streamUpdates, revStreams, localCands, ctx, timers, callLog>>

\* Socket.disconnect() on socket X of ss: the socket is closed for good; the
\* library fires its "disconnect" event only if it was connected.
SocketDisconnect(ss, X) == [ss EXCEPT ![X].state = "closed"]

\* SocketService.connect(userId): a previous socket is disconnected only if it
\* is connected, and its "disconnect" listener then clears the flag; io()
\* then makes a new socket, which becomes this.socket. The userId is only
\* stored and handed to io().
connect ==
    /\ Len(sockets) < MaxSockets
    /\ LET wasUp == thisSocket # 0 /\ sockets[thisSocket].state = "connected"
           old == IF wasUp THEN SocketDisconnect(sockets, thisSocket) ELSE sockets
       IN /\ sockets' = Append(old, NewSocket)
          /\ thisSocket' = Len(sockets) + 1
          /\ socket' = IF wasUp THEN [socket EXCEPT !.connected = FALSE] ELSE socket
    /\ UNCHANGED <<subs, heard, screen>>
    /\ SockFrame

\* SocketService.disconnect().
disconnect ==
    /\ sockets' = IF thisSocket # 0
                  THEN SocketDisconnect(sockets, thisSocket)
                  ELSE sockets
    /\ thisSocket' = 0
    /\ socket' = [socket EXCEPT !.connected = FALSE]
    /\ UNCHANGED <<subs, heard, screen>>
    /\ SockFrame

\* The "connect" event of socket X and the listener setupEventListeners put
\* on it.
SocketConnects(X) ==
    /\ sockets[X].state = "opening"
    /\ sockets' = [sockets EXCEPT ![X].state = "connected"]
    /\ socket' = [socket EXCEPT !.connected = TRUE]
    /\ UNCHANGED <<thisSocket, subs, heard, screen>>
    /\ SockFrame

\* The "connect_error" event of socket X: a connection attempt failed, the
\* socket goes on trying (reconnection: true).
SocketConnectError(X) ==
    /\ sockets[X].state = "opening"
    /\ socket' = [socket EXCEPT !.connected = FALSE]
    /\ UNCHANGED <<sockets, thisSocket, subs, heard, screen>>
    /\ SockFrame

\* The "disconnect" event of socket X when the server or the transport drops
\* it: the socket goes back to connecting.
SocketDrops(X) ==
    /\ sockets[X].state = "connected"
    /\ sockets' = [sockets EXCEPT ![X].state = "opening"]
    /\ socket' = [socket EXCEPT !.connected = FALSE]
    /\ UNCHANGED <<thisSocket, subs, heard, screen>>
    /\ SockFrame

\* SocketService.on(event, callback) with a callback not registered before:
\* the callback goes on this.socket, if there is one. The entry of subs keeps
\* what the returned function closes over and what became of the callback.
Subscribe(st, cur, event) ==
    [subs |-> Append(st.subs, [event |-> event, sock |-> cur,
                               off |-> FALSE, late |-> FALSE]),
     sockets |-> IF cur # 0
                 THEN [st.sockets EXCEPT ![cur].listeners = @ \cup {Len(st.subs) + 1}]
                 ELSE st.sockets]

on(event) ==
    /\ Len(subs) < MaxSubs
    /\ LET r == Subscribe([subs |-> subs, sockets |-> sockets], thisSocket, event)
       IN /\ subs' = r.subs
          /\ sockets' = r.sockets
    /\ UNCHANGED <<socket, thisSocket, heard, screen>>
    /\ SockFrame

\* The function on() returned for callback l is called: registered on a
\* socket, it calls off on whatever this.socket is now; otherwise it does
\* nothing.
Unsubscribe(l) ==
    /\ ~subs[l].off
    /\ subs' = [subs EXCEPT ![l].off = TRUE]
    /\ sockets' = IF subs[l].sock # 0 /\ thisSocket # 0
                  THEN [sockets EXCEPT ![thisSocket].listeners = @ \ {l}]
                  ELSE sockets
    /\ UNCHANGED <<socket, thisSocket, heard, screen>>
    /\ SockFrame

\* The server sends a message of the given event to connected socket X: every
\* callback registered on X for the event is invoked.
SocketMessage(X, event) ==
    /\ sockets[X].state = "connected"
    /\ LET invoked == {l \in sockets[X].listeners : subs[l].event = event}
       IN /\ subs' = [l \in DOMAIN subs |->
                        IF l \in invoked
                        THEN [subs[l] EXCEPT !.late = @ \/ subs[l].off]
                        ELSE subs[l]]
          /\ heard' = Cardinality(invoked)
    /\ UNCHANGED <<socket, sockets, thisSocket, screen>>
    /\ SockFrame

\* ---------------------------------------------------------------- UserVideoCall
CallStates == {"connected", "disconnected", "failed", "ended"}

ScreenFrame ==
    UNCHANGED <<onCallStateChange, procs, iceLog, iceEvents, cfgVars,
                onIceCandidate, onRemoteStreamUpdate, streamUpdates, revStreams,
                localCands, ctx, timers, callLog>>

IdleService ==
    UNCHANGED <<pcs, peerConnection, streams, localStream, remoteStream,
                remoteTracks, notes, ends, tornLast>>

\* The component is mounted for a call (or its recipientId / incomingCallData
\* changed) and the call effect starts initializeCall.
MountScreen ==
    /\ ~screen.mounted
    /\ screen.pending < MaxMounts
    /\ screen' = [mounted |-> TRUE, pending |-> screen.pending + 1,
                  ended |-> FALSE, told |-> FALSE]
    /\ UNCHANGED <<socket, sockets, thisSocket, subs, heard>>
    /\ IdleService
    /\ ScreenFrame

\* A run of initializeCall has sent its offer and registers its two socket
\* listeners; the function it returns to remove them is dropped by the effect.
\* Nothing here tests mounted.
InitializeCallListeners ==
    /\ screen.pending > 0
    /\ LET r1 == Subscribe([subs |-> subs, sockets |-> sockets], thisSocket,
                           "userCallAnswer")
           r2 == Subscribe(r1, thisSocket, "iceCandidate")
       IN /\ subs' = r2.subs
          /\ sockets' = r2.sockets
    /\ screen' = [screen EXCEPT !.pending = @ - 1]
    /\ UNCHANGED <<socket, thisSocket, heard>>
    /\ IdleService
    /\ ScreenFrame

\* A run of initializeCall returns before it registers anything: the
\* component was unmounted while the camera was opened, or a step threw.
InitializeCallStops ==
    /\ screen.pending > 0
    /\ screen' = [screen EXCEPT !.pending = @ - 1]
    /\ UNCHANGED <<socket, sockets, thisSocket, subs, heard>>
    /\ IdleService
    /\ ScreenFrame

\* handleEndCall, the handler of the End Call button.
handleEndCall ==
    /\ screen.mounted
    /\ DisconnectCallEffects
    /\ socket' = emit(socket)
    /\ screen' = [screen EXCEPT !.ended = TRUE, !.told = TRUE]
    /\ UNCHANGED <<sockets, thisSocket, subs, heard>>
    /\ ScreenFrame

\* The callback the component gives setOnCallStateChange is called with a
\* state: "failed" and "disconnected" end the call through onEndCall.
CallStateCallback(state) ==
    /\ screen.mounted
    /\ screen' = IF state \in {"failed", "disconnected"}
                 THEN [screen EXCEPT !.ended = TRUE]
                 ELSE screen
    /\ UNCHANGED <<socket, sockets, thisSocket, subs, heard>>
    /\ IdleService
    /\ ScreenFrame

\* The cleanup of the call effect, at unmount or before the effect runs again.
EffectCleanup ==
    /\ screen.mounted
    /\ DisconnectCallEffects
    /\ screen' = [screen EXCEPT !.mounted = FALSE, !.ended = TRUE]
    /\ UNCHANGED <<socket, sockets, thisSocket, subs, heard>>
    /\ ScreenFrame

\* ---------------------------------------------------------------- specifications
\* Call setup and teardown, with no remote candidate delivered.
Next ==
    \/ ConfigResolved(Ctor)
    \/ \E p \in SetupIds : StartMakeCall(p)
    \/ \E p \in SetupIds : \E good \in BOOLEAN : StartIncoming(p, good)
    \/ \E p \in SetupIds : ResetClose(p)
    \/ \E p \in SetupIds : ConfigResolved(p)
    \/ StartLocalStream
    \/ \E p \in SetupIds \cup {Sls} : \E granted \in BOOLEAN : GumResolved(p, granted)
    \/ \E p \in SetupIds : OfferResolved(p)
    \/ \E p \in SetupIds : SldResolved(p)
    \/ \E p \in SetupIds : SrdResolved(p)
    \/ disconnectCall
    \/ setOnCallStateChange
    \/ \E X \in DOMAIN pcs : \E kind \in {"audio", "video"} : OnTrack(X, kind)

Spec == Init /\ [][Next]_vars

\* Candidate handling around one call setup and one answer.
IceSetup == Ctor + 1
NextIce ==
    \/ ConfigResolved(Ctor)
    \/ StartMakeCall(IceSetup)
    \/ StartIncoming(IceSetup, TRUE)
    \/ ResetClose(IceSetup)
    \/ ConfigResolved(IceSetup)
    \/ GumResolved(IceSetup, TRUE)
    \/ OfferResolved(IceSetup)
    \/ SldResolved(IceSetup)
    \/ StartAnswer(TRUE)
    \/ \E p \in {IceSetup, Ans} : SrdResolved(p)
    \/ \E p \in {IceSetup, Ans} : DrainStep(p)
    \/ \E kind \in {"good", "malformed", "unappliable"} : handleIceCandidate(kind)

SpecIce == Init /\ [][NextIce]_vars

\* Connection monitoring of one outgoing call.
NextConn ==
    \/ ConfigResolved(Ctor)
    \/ StartMakeCall(IceSetup)
    \/ ResetClose(IceSetup)
    \/ ConfigResolved(IceSetup)
    \/ GumResolved(IceSetup, TRUE)
    \/ OfferResolved(IceSetup)
    \/ SldResolved(IceSetup)
    \/ MakeCallTimeout(IceSetup)
    \/ StartAnswer(TRUE)
    \/ SrdResolved(Ans)
    \/ ResendAnswer
    \/ setOnCallStateChange
    \/ \E X \in DOMAIN pcs : \E s \in {"checking", "connected", "disconnected", "failed"} :
          IceStateChange(X, s)
    \/ \E X \in DOMAIN pcs : \E s \in {"connecting", "connected", "disconnected", "failed"} :
          ConnectionStateChange(X, s)

SpecConn == Init /\ [][NextConn]_vars

\* Connection monitoring while the owner places calls, possibly a second one
\* before the first is set up, and ends them.
NextLink ==
    \/ ConfigResolved(Ctor)
    \/ \E p \in SetupIds : StartMakeCall(p)
    \/ \E p \in SetupIds : ResetClose(p)
    \/ \E p \in SetupIds : ConfigResolved(p)
    \/ \E p \in SetupIds : GumResolved(p, TRUE)
    \/ \E p \in SetupIds : OfferResolved(p)
    \/ \E p \in SetupIds : SldResolved(p)
    \/ StartAnswer(TRUE)
    \/ SrdResolved(Ans)
    \/ setOnCallStateChange
    \/ \E X \in DOMAIN pcs : \E s \in {"checking", "connected", "disconnected", "failed"} :
          IceStateChange(X, s)
    \/ \E X \in DOMAIN pcs : \E s \in {"connecting", "connected", "disconnected", "failed"} :
          ConnectionStateChange(X, s)
    \/ disconnectCall

SpecLink == Init /\ [][NextLink]_vars

\* The call screen around one outgoing call: callbacks, socket, answers.
NextUi ==
    \/ ConfigResolved(Ctor)
    \/ StartMakeCall(IceSetup)
    \/ ResetClose(IceSetup)
    \/ ConfigResolved(IceSetup)
    \/ GumResolved(IceSetup, TRUE)
    \/ OfferResolved(IceSetup)
    \/ SldResolved(IceSetup)
    \/ setOnIceCandidate
    \/ \E up \in BOOLEAN : SocketEvent(up)
    \/ \E X \in DOMAIN pcs : OnIceCandidate(X)
    \/ OnUserCallAnswer
    \/ SrdResolved(Ans)
    \/ disconnectCall

SpecUi == Init /\ [][NextUi]_vars

\* Renegotiation around outgoing calls, possibly a second one placed before
\* the first is set up.
NextNeg ==
    \/ ConfigResolved(Ctor)
    \/ \E p \in SetupIds : StartMakeCall(p)
    \/ \E p \in SetupIds : ResetClose(p)
    \/ \E p \in SetupIds : ConfigResolved(p)
    \/ \E p \in SetupIds : GumResolved(p, TRUE)
    \/ \E p \in SetupIds \cup {Neg} : OfferResolved(p)
    \/ \E p \in SetupIds \cup {Neg} : SldResolved(p)
    \/ \E X \in DOMAIN pcs : OnNegotiationNeeded(X)

SpecNeg == Init /\ [][NextNeg]_vars

\* Remote tracks arriving on one incoming call, as each revision of ontrack
\* handles them.
NextTrack ==
    \/ ConfigResolved(Ctor)
    \/ StartIncoming(IceSetup, TRUE)
    \/ ResetClose(IceSetup)
    \/ ConfigResolved(IceSetup)
    \/ GumResolved(IceSetup, TRUE)
    \/ SrdResolved(IceSetup)
    \/ setOnRemoteStreamUpdate
    \/ \E X \in DOMAIN pcs : \E kind \in Kinds : OnTrackArrival(X, kind)
    \/ \E kind \in Kinds : \E hasStream \in BOOLEAN : OnTrackThird(kind, hasStream)
    \/ \E kind \in Kinds : \E hasStream \in BOOLEAN : OnTrackFourth(kind, hasStream)

SpecTrack == Init /\ [][NextTrack]_vars

\* The CallProvider component and the socket it emits on.
NextCtx ==
    \/ \E callerId \in Callers : handleIncomingCall(callerId)
    \/ acceptCall
    \/ rejectCall
    \/ setupVideoCall
    \/ endCall
    \/ TimerFires
    \/ \E up \in BOOLEAN : SocketEvent(up)

SpecCtx == Init /\ [][NextCtx]_vars

\* SocketService with its sockets and the callbacks registered through it.
NextSock ==
    \/ connect
    \/ disconnect
    \/ \E X \in SocketIds : SocketConnects(X)
    \/ \E X \in SocketIds : SocketConnectError(X)
    \/ \E X \in SocketIds : SocketDrops(X)
    \/ \E event \in SocketEvents : on(event)
    \/ \E l \in DOMAIN subs : Unsubscribe(l)
    \/ \E X \in SocketIds, event \in SocketEvents : SocketMessage(X, event)
SpecSock == Init /\ [][NextSock]_vars

\* The call screen over the socket service.
NextScreen ==
    \/ connect
    \/ \E X \in SocketIds : SocketConnects(X)
    \/ \E X \in SocketIds : SocketDrops(X)
    \/ MountScreen
    \/ InitializeCallListeners
    \/ InitializeCallStops
    \/ handleEndCall
    \/ \E state \in CallStates : CallStateCallback(state)
    \/ EffectCleanup
    \/ \E X \in SocketIds, event \in SocketEvents : SocketMessage(X, event)
SpecScreen == Init /\ [][NextScreen]_vars

\* The mute and camera buttons around a local preview and one outgoing call.
NextMedia ==
    \/ ConfigResolved(Ctor)
    \/ StartLocalStream
    \/ StartMakeCall(IceSetup)
    \/ ResetClose(IceSetup)
    \/ ConfigResolved(IceSetup)
    \/ \E p \in {Sls, IceSetup} : \E granted \in BOOLEAN : GumResolved(p, granted)
    \/ OfferResolved(IceSetup)
    \/ SldResolved(IceSetup)
    \/ \E mute \in BOOLEAN : muteAudio(mute)
    \/ \E hide \in BOOLEAN : hideVideo(hide)
    \/ disconnectCall

SpecMedia == Init /\ [][NextMedia]_vars

\* getWebRTCConfig, in both revisions, over every case of the fetch.
InitCfg ==
    /\ InitService
    /\ cfgIn \in FetchInputs
    /\ cfgOut = NotFetched

NextCfg ==
    \/ getWebRTCConfig
    \/ getWebRTCConfig0

SpecCfg == InitCfg /\ [][NextCfg]_vars

\* One incoming call answered with createAnswer. The browser settles the
\* operations the code awaits on an open connection; when, and whether, ICE
\* gathering completes is up to the network.
NextAnswer ==
    \/ ConfigResolved(Ctor)
    \/ StartIncoming(IceSetup, TRUE)
    \/ ResetClose(IceSetup)
    \/ ConfigResolved(IceSetup)
    \/ GumResolved(IceSetup, TRUE)
    \/ SrdResolved(IceSetup)
    \/ StartCreateAnswer
    \/ AnswerResolved
    \/ AnswerSldResolved
    \/ \E X \in DOMAIN pcs : GatheringChange(X)

SpecAnswer ==
    /\ Init
    /\ [][NextAnswer]_vars
    /\ WF_vars(ResetClose(IceSetup))
    /\ WF_vars(ConfigResolved(IceSetup))
    /\ WF_vars(SrdResolved(IceSetup))
    /\ WF_vars(AnswerResolved)
    /\ WF_vars(AnswerSldResolved)

\* ---------------------------------------------------------------- properties
Range(f) == {f[i] : i \in DOMAIN f}
Ids(cs) == [i \in DOMAIN cs |-> cs[i].id]
LivePcs == {X \in DOMAIN pcs : ~pcs[X].closed}
LiveStreams == {i \in DOMAIN streams : ~streams[i].stopped}
HoldsNothing == localStream = 0 /\ ~remoteStream.present /\ peerConnection = 0
Count(seq, v) == Cardinality({i \in DOMAIN seq : seq[i] = v})
Committed(p) ==
    procs[p].kind \in {"incoming", "answer"} /\ procs[p].at = "done" /\ procs[p].result = "ok"

\* C1: once handleIncomingCall or handleAnswer has committed the remote
\* description, every candidate that handleIceCandidate queued before is applied
\* to that connection exactly once, in arrival order.
QueuedGoodBefore(n) ==
    LET IsQueued(e) == e.result = "queued" /\ e.kind = "good"
    IN  Ids(SelectSeq(SubSeq(iceLog, 1, n), IsQueued))
C1_QueuedAllAppliedInOrder ==
    \A p \in ProcIds : Committed(p) =>
        LET want == QueuedGoodBefore(procs[p].snap)
            Wanted(i) == i \in Range(want)
        IN  SelectSeq(pcs[procs[p].link].applied, Wanted) = want

\* C2: at no time are two peer connections of the service live (created and
\* not closed).
C2_AtMostOneLivePc == Cardinality(LivePcs) <= 1

\* C3: a disconnectCall issued on a service that is already torn down has no
\* observable effect: same state, and no further notification to the owner.
C3_TeardownIdempotent ==
    [][(ends >= 1 /\ HoldsNothing /\ notes # <<>> /\ notes[Len(notes)] = "ended"
        /\ disconnectCall)
          => (notes' = notes /\ pcs' = pcs /\ streams' = streams
              /\ remoteTracks' = remoteTracks /\ HoldsNothing')]_vars

\* C4: as long as disconnectCall is the latest call made on the service, the
\* service holds no stream and no connection and nothing acquired is live, also
\* after the operations that were suspended at the teardown have resumed.
C4_InFlightDiscarded ==
    tornLast => (HoldsNothing /\ LivePcs = {} /\ LiveStreams = {})

\* C5: call setups are serialized: no two of them are in flight at once, and
\* all link operations of one setup are applied to the peer connection that
\* its own resetPeerConnection created.
C5_SetupsSerialized ==
    /\ \A p, q \in SetupIds : (Suspended(p) /\ Suspended(q)) => p = q
    /\ \A p \in SetupIds : procs[p].ops \subseteq {procs[p].made}

\* C6: on the connection the service holds, once its remote description is set
\* and its queue drained, every valid candidate handed to handleIceCandidate for
\* it has been applied exactly once, whatever bad candidates came before it.
Draining(X) == \E p \in ProcIds : procs[p].at = "drain" /\ procs[p].link = X
C6_BadCandidateDoesNotBlock ==
    \A X \in DOMAIN pcs :
        (X = peerConnection /\ pcs[X].remote /\ ~Draining(X)) =>
            \A i \in DOMAIN iceLog :
                (iceLog[i].pc = X /\ iceLog[i].kind = "good") =>
                    Count(pcs[X].applied, iceLog[i].id) = 1
\* A bad candidate was queued ahead of a valid one, the queue has been drained and
\* the valid one is applied; and a bad candidate handled immediately was followed
\* by a valid one that is applied.
C6_Witness ==
    \E X \in DOMAIN pcs :
        /\ X = peerConnection /\ pcs[X].remote /\ ~Draining(X)
        /\ \E i, j \in DOMAIN pcs[X].enq :
              /\ i < j
              /\ pcs[X].enq[i].kind = "unappliable"
              /\ pcs[X].enq[j].kind = "good"
              /\ Count(pcs[X].applied, pcs[X].enq[j].id) = 1
        /\ \E i, j \in DOMAIN iceLog :
              /\ i < j
              /\ iceLog[i].pc = X /\ iceLog[i].result = "threw"
              /\ iceLog[j].pc = X /\ iceLog[j].result = "applied"
              /\ Count(pcs[X].applied, iceLog[j].id) = 1

\* C7: handleIceCandidate completes without raising for a bad candidate.
C7_BadCandidateSwallowed ==
    \A i \in DOMAIN iceLog :
        (iceLog[i].kind # "good" /\ iceLog[i].pc # 0) => iceLog[i].result # "threw"

\* C8: a handleIncomingCall that fails on an undecodable offer has acquired no
\* local media and created no peer connection.
C8_DecodeFailureLeavesIdle ==
    \A p \in SetupIds :
        (procs[p].kind = "incoming" /\ procs[p].result = "DecodeError") =>
            (procs[p].made = 0 /\ ~procs[p].media)

\* C9: a makeCall that fails because media permission is denied has created no
\* peer connection and set no local description.
C9_MediaFailureLeavesIdle ==
    \A p \in SetupIds :
        (procs[p].kind = "makeCall" /\ procs[p].result = "MediaError") =>
            (procs[p].made = 0 /\ \A X \in DOMAIN pcs : pcs[X].local = 0)

\* C10: per connection, a transition to failed is answered by exactly one ICE
\* restart; the owner is told "failed" at most once, and only after the restart
\* was attempted and the connection failed again.
C10_OneRestartThenTerminal ==
    \A X \in DOMAIN pcs :
        /\ pcs[X].restarts <= 1
        /\ pcs[X].fails >= 1 => pcs[X].restarts = 1
        /\ Count(notes, "failed") <= 1
        /\ pcs[X].fails <= 1 => Count(notes, "failed") = 0

\* C11: a handleAnswer that finds a peer connection and a decodable answer
\* returns normally whatever the signaling state is: outside have-local-offer
\* (an answer that was already applied is resent) it does nothing and raises
\* nothing.
C11_AnswerOutsideOfferIsNoOp ==
    (procs[Ans].kind = "answer" /\ procs[Ans].at = "done" /\ procs[Ans].link # 0)
        => procs[Ans].result = "ok"

\* C12: no valid candidate delivered before the remote description was set is
\* lost: once the setup that set it has returned and nothing is in flight, each
\* of them has been applied to the connection that carries the call.
Quiescent == \A p \in ProcIds : ~Suspended(p)
C12_EarlyCandidatesNotLost ==
    \A p \in ProcIds :
        (Committed(p) /\ Quiescent /\ procs[p].link = peerConnection) =>
            \A i \in 1..procs[p].snap :
                iceLog[i].kind = "good" =>
                    Count(pcs[procs[p].link].applied, iceLog[i].id) >= 1

\* C14: when disconnectCall returns, every local stream acquired so far and
\* every track of the remote stream is stopped, the connection the service held
\* is closed, the three references are null, and the owner (if it registered its
\* callback) has been told "ended".
C14_TeardownReleasesAll ==
    [][disconnectCall =>
        /\ LiveStreams' = {}
        /\ remoteStream.present =>
              \A i \in remoteStream.tracks : remoteTracks'[i].stopped
        /\ peerConnection # 0 => pcs'[peerConnection].closed
        /\ HoldsNothing'
        /\ onCallStateChange =>
              (notes' # <<>> /\ notes'[Len(notes')] = "ended")]_vars

\* C15: the step in which makeCall fails with the setup timeout leaves the
\* session torn down, and no later step of the timed-out setup touches a
\* connection, the connection reference or the local stream.
C15_TimeoutTearsDown ==
    [][\A p \in SetupIds :
        /\ (~procs[p].timedOut /\ procs'[p].timedOut) =>
              (HoldsNothing' /\ LivePcs' = {} /\ LiveStreams' = {})
        /\ (procs[p].timedOut /\ procs'[p] # procs[p]) =>
              (pcs' = pcs /\ peerConnection' = peerConnection
               /\ localStream' = localStream)]_vars

\* C16: every step in which the connection state or the ICE connection state
\* of a connection becomes disconnected or failed requests one ICE restart on
\* the connection the service holds.
Dropped(s) == s \in {"disconnected", "failed"}
C16_DropRequestsRestart ==
    [][\A X \in DOMAIN pcs :
        ((Dropped(pcs'[X].ice) /\ pcs'[X].ice # pcs[X].ice)
         \/ (Dropped(pcs'[X].conn) /\ pcs'[X].conn # pcs[X].conn))
          => (peerConnection # 0
              /\ pcs'[peerConnection].restarts = pcs[peerConnection].restarts + 1)]_vars

\* C17: the first time a connection drops (no failure before, no restart
\* requested yet, no error shown yet) the owner is shown no error.
ErrorsShown == Cardinality({i \in DOMAIN notes : OwnerShowsError(notes[i])})
C17_FirstFailureInvisible ==
    [][\A X \in DOMAIN pcs :
        (/\ pcs[X].fails = 0 /\ pcs[X].restarts = 0 /\ ErrorsShown = 0
         /\ ~Dropped(pcs[X].ice) /\ ~Dropped(pcs[X].conn)
         /\ (Dropped(pcs'[X].ice) \/ Dropped(pcs'[X].conn)))
          => ErrorsShown' = 0]_vars

\* C18: during one call the owner's callback is invoked with "connected" at
\* most once.
C18_ConnectedSurfacedOnce == Count(notes, "connected") <= 1

\* C19: a createAnswer that has entered its wait for ICE gathering returns.
C19_CreateAnswerTerminates ==
    (procs[Cra].at = "gather") ~> (procs[Cra].at = "done")

\* C20: getWebRTCConfig always settles with a configuration, and with the
\* STUN-only fallback whenever the request fails, the status is not OK or the
\* reply is malformed or incomplete.
FetchFailed(in) == in.net # "ok" \/ in.status # "ok" \/ in.body # "wellFormed"
C20_ConfigNeverFails ==
    \A out \in {cfgOut.cur, cfgOut.old} :
        out # NoConfig =>
            /\ out.kind \notin {"rejected", "pending"}
            /\ FetchFailed(cfgIn) => out = Fallback

\* C21: every local candidate a connection generated has been emitted on the
\* socket.
C21_LocalCandidatesForwarded == socket.sent = localCands

\* C25: no background handler lets an error escape: the answer listener never
\* ends in a rejection nobody catches.
C25_BackgroundErrorsSwallowed == ~AnswerListenerRejected


\* C22: a new setup's reset fully tears the previous session down: when the
\* reset closes the connection it found, that connection is closed, and when
\* the reset has installed the new connection the remote stream holds no
\* track that was received on an earlier connection.
C22_ResetTearsDownPrevious ==
    [][\A p \in SetupIds :
         /\ (procs[p].at = "rst" /\ procs'[p].at = "cfg" /\ peerConnection # 0)
                => pcs'[peerConnection].closed
         /\ (procs[p].at = "cfg" /\ procs'[p].at # "cfg")
                => \A i \in remoteStream'.tracks :
                       remoteTracks'[i].from = peerConnection']_vars


\* C23: muteAudio(m) sets enabled = !m on every local audio track and leaves
\* the video tracks alone, hideVideo(h) does the same for video, nothing else
\* changes, and with no local stream held each changes no state at all.
C23_MuteAndHide ==
    [][/\ \A m \in BOOLEAN : muteAudio(m) =>
            /\ localStream = 0 => UNCHANGED vars
            /\ localStream # 0 =>
                  /\ streams'[localStream].enabled["audio"] = ~m
                  /\ streams'[localStream].enabled["video"]
                        = streams[localStream].enabled["video"]
                  /\ streams'[localStream].stopped = streams[localStream].stopped
                  /\ \A i \in DOMAIN streams \ {localStream} : streams'[i] = streams[i]
                  /\ DOMAIN streams' = DOMAIN streams
       /\ \A h \in BOOLEAN : hideVideo(h) =>
            /\ localStream = 0 => UNCHANGED vars
            /\ localStream # 0 =>
                  /\ streams'[localStream].enabled["video"] = ~h
                  /\ streams'[localStream].enabled["audio"]
                        = streams[localStream].enabled["audio"]
                  /\ streams'[localStream].stopped = streams[localStream].stopped
                  /\ \A i \in DOMAIN streams \ {localStream} : streams'[i] = streams[i]
                  /\ DOMAIN streams' = DOMAIN streams]_vars

\* The microphone is muted while the camera stays on, on the second stream
\* the service obtained.
C23_Witness ==
    /\ localStream # 0
    /\ Len(streams) > 1
    /\ ~streams[localStream].enabled["audio"]
    /\ streams[localStream].enabled["video"]


\* C24: closed is terminal: a connection the service released (closed by
\* disconnectCall, or replaced by a reset) makes no further ICE or connection
\* state transition, and nothing but a teardown or a transition of the
\* connection the service holds restarts ICE or notifies the owner.
C24_ClosedIsTerminal ==
    [][/\ \A X \in DOMAIN pcs :
            (pcs[X].closed \/ \E p \in SetupIds : procs[p].made > X) =>
                /\ pcs'[X].ice = pcs[X].ice
                /\ pcs'[X].conn = pcs[X].conn
                /\ pcs'[X].restarts = pcs[X].restarts
                /\ pcs'[X].fails = pcs[X].fails
       /\ (notes' # notes \/ \E X \in DOMAIN pcs : pcs'[X].restarts # pcs[X].restarts)
            => \/ ends' # ends
               \/ /\ peerConnection # 0
                  /\ peerConnection' = peerConnection
                  /\ ~pcs[peerConnection].closed
                  /\ pcs'[peerConnection].ice # pcs[peerConnection].ice]_vars

\* C26: the pending candidate queue (the one handleIceCandidate pushes to) is
\* non-empty only while the connection the service holds has no remote
\* description.
PendingQueue == IF pcs = <<>> THEN <<>> ELSE pcs[Len(pcs)].queue
C26_QueueOnlyBeforeRemote ==
    PendingQueue # <<>> => (peerConnection = 0 \/ ~pcs[peerConnection].remote)

\* C27: candidates are applied in the order handleIceCandidate received them:
\* no candidate has been applied to a connection while a valid candidate
\* received earlier is still waiting in that connection's queue.
C27_AppliedInArrivalOrder ==
    \A X \in DOMAIN pcs :
        \A i \in DOMAIN pcs[X].queue : \A j \in DOMAIN pcs[X].applied :
            pcs[X].queue[i].kind = "good" => pcs[X].applied[j] < pcs[X].queue[i].id

\* C28: when makeCall has returned an offer, the local description committed
\* on its connection is that offer: the onnegotiationneeded handler has not
\* committed one of its own over it.
C28_SentOfferIsCommitted ==
    \A p \in SetupIds :
        (procs[p].kind = "makeCall" /\ procs[p].result = "offer"
           /\ ~pcs[procs[p].link].closed)
            => pcs[procs[p].link].local # Neg

\* C29: after any sequence of remote track events the remote stream holds at
\* most one track of each kind, and the owner, once it has registered its
\* callback, is notified of the stream after each arrival; in each revision
\* of the handler.
OnePerKind(ks) == \A i, j \in DOMAIN ks : ks[i] = ks[j] => i = j
C29_OneTrackPerKindAndNotified ==
    [][/\ Len(remoteTracks') > Len(remoteTracks) =>
            /\ \A i, j \in remoteStream'.tracks :
                   remoteTracks'[i].kind = remoteTracks'[j].kind => i = j
            /\ onRemoteStreamUpdate => streamUpdates' = streamUpdates + 1
       /\ \A r \in Revisions :
            revStreams'[r].arrivals > revStreams[r].arrivals =>
                /\ OnePerKind(revStreams'[r].tracks)
                /\ onRemoteStreamUpdate =>
                       revStreams'[r].updates = revStreams[r].updates + 1]_vars

\* C30: when the 30-second timer of setupVideoCall fires, the call state is
\* reset only if the call is not active at that time; an active call is left
\* unchanged.
C30_TimerSparesActiveCall ==
    [][Len(timers') < Len(timers) =>
          IF ctx.isCallActive
          THEN ctx' = ctx
          ELSE ctx' = [ctx EXCEPT !.isCallInitialized = FALSE, !.isCallActive = FALSE,
                                  !.incomingCallData = 0]]_vars

\* C31: in every state of the CallProvider a ringing prompt has its call data:
\* isIncomingCall implies incomingCallData is not null.
C31_RingingHasCallData == ctx.isIncomingCall => ctx.incomingCallData # 0

\* C32: every caller handed to handleIncomingCall gets an answer once the user
\* accepts or rejects the pending prompt: a caller for whom neither
\* call-accepted nor rejectCall has been requested is the caller of the
\* pending prompt.
C32_EveryCallerAnswered ==
    \A c \in callLog.offered \ callLog.answered :
        ctx.isIncomingCall /\ ctx.incomingCallData = c

\* C33: handleIncomingCall invoked while a call is active or initialized asks
\* the socket service to emit rejectCall for that caller and leaves
\* isIncomingCall, incomingCallData, isCallActive and isCallInitialized (and
\* everything else) unchanged.
C33_BusyRejectsAndKeepsState ==
    [][\A c \in Callers :
         (handleIncomingCall(c) /\ (ctx.isCallActive \/ ctx.isCallInitialized)) =>
             /\ ctx' = ctx
             /\ timers' = timers
             /\ c \in callLog'.answered
             /\ socket' = emit(socket)]_vars

\* A second caller has been turned away while the call with the first, whose
\* data the provider still holds, is active.
C33_Witness ==
    /\ ctx.isCallActive
    /\ ctx.isCallInitialized
    /\ ctx.incomingCallData # 0
    /\ \E c \in callLog.answered : c # ctx.incomingCallData
    /\ socket.sent > 1

\* C38: in every state of the CallProvider isCallActive equals
\* isCallInitialized.
C38_ActiveIffInitialized == ctx.isCallActive = ctx.isCallInitialized

\* A call has been set up, its timer is pending and a caller has been
\* answered meanwhile.
C38_Witness ==
    /\ ctx.isCallActive
    /\ ctx.isCallInitialized
    /\ callLog.answered # {}
    /\ Len(timers) = 1
    /\ ctx.incomingCallData = 0

\* C35: the connected flag of SocketService is true only if this.socket
\* exists and is itself connected.
C35_FlagMeansCurrentSocketConnected ==
    socket.connected => thisSocket # 0 /\ sockets[thisSocket].state = "connected"

\* C36: at most one socket the service created is live.
C36_AtMostOneLiveSocket ==
    Cardinality({X \in SocketIds : Live(sockets[X])}) <= 1

\* C39: once the function on() returned has been called, the callback is no
\* longer on the socket it was registered on and is not invoked again.
C39_UnsubscribeRemovesCallback ==
    \A l \in DOMAIN subs :
        subs[l].off =>
            /\ subs[l].sock # 0 => l \notin sockets[subs[l].sock].listeners
            /\ ~subs[l].late

\* C34: the socket listeners of a call are removed when the call ends, and a
\* received message invokes at most one callback.
C34_ListenersRemovedWithCall ==
    /\ heard <= 1
    /\ (~screen.mounted /\ screen.pending = 0) =>
           \A X \in SocketIds : sockets[X].listeners = {}

\* C37: a call that has ended locally has had userEndCall emitted for it.
C37_EndedCallToldToPeer == screen.ended => screen.told

====
